---- MODULE Spec2Model ----
(***************************************************************************)
(* A model of rag_AI_assistant.ipynb: the VectorStore (embedding cache,    *)
(* flat L2 index, search), generate_response with its CSV interaction log, *)
(* and the notebook cells that start the FastAPI server and check the      *)
(* ngrok credential.                                                       *)
(*                                                                         *)
(* Texts are sequences of one-character strings, so that str.split and     *)
(* str.strip are computed character by character.                          *)
(***************************************************************************)
EXTENDS Integers, Sequences, FiniteSets, TLC

VARIABLES
    corpus,      \* the dataset df as it is on disk at the next process start
    cacheFile,   \* cache/embeddings_full.npy: NoFile or [shape, rows]
    vs,          \* the process building / holding the VectorStore object
    lastSearch,  \* the locals and the result of the last VectorStore.search
    logFile,     \* chat_log.csv: [header, rows]
    th,          \* per thread: position inside generate_response and its locals
    calls,       \* history: one record per generate_response call, by call id
    clock,       \* the wall clock read by datetime.now()
    log0,        \* history: the rows of chat_log.csv when the session began
    cell,        \* the next notebook cell of the serving part (8, 9, 10)
    token,       \* os.environ["NGROK_AUTHTOKEN"] ("" when unset)
    serverUp,    \* the uvicorn thread started by Thread(target=run).start()
    ex           \* the raw oracle output and the answer extracted from it

vars == <<corpus, cacheFile, vs, lastSearch, logFile, th, calls, clock, log0,
          cell, token, serverUp, ex>>

storeVars == <<corpus, cacheFile, vs, lastSearch>>
serveVars == <<logFile, th, calls, clock, log0, cell, token, serverUp>>

----------------------------------------------------------------------------
(* Bounds of the model.                                                    *)

MaxChunks == 4      \* a raw oracle output is made of at most this many chunks
MaxCorpus == 3      \* records in a corpus
MaxTopK == 3        \* top_k ranges over 1..MaxTopK
MaxBatch == 2       \* batch_size ranges over 1..MaxBatch
EmbedDim == 2       \* dimension of the embedding vectors (384 in the program)
MaxCalls == 2       \* generate_response calls in one session
MaxClock == 2       \* the wall clock ticks at most this often

----------------------------------------------------------------------------
(* Texts.                                                                  *)

Marker == <<"A", "n", "s", "w", "e", "r", ":">>

Whitespace == {" ", "\n"}

Max(S) == CHOOSE x \in S : \A y \in S : y <= x

Min(S) == CHOOSE x \in S : \A y \in S : x <= y

\* s[i .. i + Len(sep) - 1] = sep
OccursAt(s, sep, i) ==
    /\ i >= 1
    /\ i + Len(sep) - 1 <= Len(s)
    /\ SubSeq(s, i, i + Len(sep) - 1) = sep

\* str.find(sep, start): the first position >= start where sep occurs, 0 if none
Find(s, sep, start) ==
    LET hits == {i \in start..Len(s) : OccursAt(s, sep, i)}
    IN  IF hits = {} THEN 0 ELSE Min(hits)

\* str.split(sep): scan from the left, cut at each occurrence found
RECURSIVE SplitFrom(_, _, _)
SplitFrom(s, sep, start) ==
    LET i == Find(s, sep, start)
    IN  IF i = 0
        THEN <<SubSeq(s, start, Len(s))>>
        ELSE <<SubSeq(s, start, i - 1)>> \o SplitFrom(s, sep, i + Len(sep))

Split(s, sep) == SplitFrom(s, sep, 1)

\* str.strip(): drop leading and trailing whitespace
Strip(s) ==
    LET keep == {i \in 1..Len(s) : s[i] \notin Whitespace}
    IN  IF keep = {} THEN <<>> ELSE SubSeq(s, Min(keep), Max(keep))

\* the mutant of LastPart: the piece after the first marker
SecondPart(parts) == IF Len(parts) > 1 THEN parts[2] ELSE parts[1]

\* parts[-1]
LastPart(parts) == parts[Len(parts)]

\* answer = response.split("Answer:")[-1].strip()
ExtractAnswer(response) == Strip(LastPart(Split(response, Marker)))

----------------------------------------------------------------------------
(* Raw oracle outputs: concatenations of at most MaxChunks chunks.         *)

RawChunks == {Marker, <<" ">>, <<"o", "k">>, <<"A", "n", "s">>, <<"\n">>}

RECURSIVE RawOfChunks(_)
RawOfChunks(n) ==
    IF n = 0 THEN {<<>>}
    ELSE LET shorter == RawOfChunks(n - 1)
         IN  shorter \cup {s \o c : s \in shorter, c \in RawChunks}

RawOutputs == RawOfChunks(MaxChunks)

----------------------------------------------------------------------------
(* The embedder and the flat L2 index.                                     *)

Alphabet == <<"o", "h", "i", "N", "A", "n", "k", "s", "w", "e", "r", ":", " ", "\n">>

CharCode(c) == CHOOSE i \in 1..Len(Alphabet) : Alphabet[i] = c

\* SentenceTransformer.encode of one text: a deterministic function of the
\* text alone; coordinate d counts the characters whose code d + 1 divides
Embed(text) ==
    [d \in 1..EmbedDim |->
        Cardinality({i \in 1..Len(text) : CharCode(text[i]) % (d + 1) = 0})]

\* model.encode(batch): one vector per text, in the order of the batch
EncodeBatch(batch) == [j \in 1..Len(batch) |-> Embed(batch[j])]

RECURSIVE SqDiffSum(_, _, _)
SqDiffSum(x, y, d) ==
    IF d = 0 THEN 0
    ELSE (x[d] - y[d]) * (x[d] - y[d]) + SqDiffSum(x, y, d - 1)

\* squared Euclidean distance, the metric of faiss.IndexFlatL2
L2(x, y) == SqDiffSum(x, y, EmbedDim)

\* how many stored vectors come before row i in the index's result order:
\* nearer ones, and equally near ones that were added earlier
RankOf(dist, i) ==
    Cardinality({j \in DOMAIN dist :
        \/ dist[j] < dist[i]
        \/ /\ dist[j] = dist[i]
           /\ j < i})

\* index.search(query_vec, top_k)[1][0]: top_k ids (0-based), nearest first,
\* padded with -1 when the index holds fewer than top_k vectors
IndexSearch(vectors, qv, top_k) ==
    LET dist == [i \in 1..Len(vectors) |-> L2(vectors[i], qv)]
    IN  [p \in 1..top_k |->
            IF p <= Len(vectors)
            THEN (CHOOSE i \in 1..Len(vectors) : RankOf(dist, i) = p - 1) - 1
            ELSE -1]

\* valid_indices = [i for i in indices[0] if 0 <= i < len(self.data)]
ValidIndices(indices, n) == SelectSeq(indices, LAMBDA i : 0 <= i /\ i < n)

\* [self.data.iloc[i]['support_reply'] for i in valid_indices]
Replies(data, valid) == [j \in 1..Len(valid) |-> data[valid[j] + 1].support_reply]

\* VectorStore.search(query, top_k) on a store with this data and index
SearchStore(data, index, query, top_k) ==
    LET query_vec == Embed(query)
        indices == IndexSearch(index, query_vec, top_k)
        valid_indices == ValidIndices(indices, Len(data))
    IN  [query |-> query, top_k |-> top_k, indices |-> indices,
         valid_indices |-> valid_indices,
         result |-> Replies(data, valid_indices)]

----------------------------------------------------------------------------
(* The corpus and the embedding cache file.                                *)

T_hi == <<"h", "i">>
T_ih == <<"i", "h">>
T_NA == <<"N", "A">>

Records ==
    { [customer_query |-> T_hi, support_reply |-> <<"o", "k">>],
      [customer_query |-> T_ih, support_reply |-> <<"n", "o">>],
      [customer_query |-> T_NA, support_reply |-> <<"s", "o">>] }

RECURSIVE SeqsUpTo(_, _)
SeqsUpTo(S, n) ==
    IF n = 0 THEN {<<>>}
    ELSE LET shorter == SeqsUpTo(S, n - 1)
         IN  shorter \cup {Append(s, x) : s \in shorter, x \in S}

\* the corpora a process start can find: at least one record
Corpora == SeqsUpTo(Records, MaxCorpus) \ {<<>>}

SearchTexts == {T_hi, T_NA}

NoFile == [shape |-> -1, rows |-> <<>>]

\* os.path.exists(self.cache_file)
Exists(f) == f.shape >= 0

\* every row np.save announced in the header has been written
Complete(f) == Exists(f) /\ Len(f.rows) = f.shape

NoStore ==
    [pc |-> "down", path |-> "none", data |-> <<>>, batch_size |-> 0, i |-> 0,
     embeddings |-> <<>>, index |-> <<>>]

NoSearch ==
    [query |-> <<>>, top_k |-> 0, indices |-> <<>>, valid_indices |-> <<>>,
     result |-> <<>>]

----------------------------------------------------------------------------
(* VectorStore.__init__, step by step, in a process that can stop at any   *)
(* point; the files outlive the process.                                   *)

\* vector_store = VectorStore(df): the process starts with the corpus that
\* is on disk now
StartProcess(bs) ==
    /\ vs.pc = "down"
    /\ vs' = [NoStore EXCEPT !.pc = "init", !.data = corpus, !.batch_size = bs]
    /\ UNCHANGED <<corpus, cacheFile, lastSearch>>
    /\ UNCHANGED <<serveVars, ex>>

\* if os.path.exists(self.cache_file): ... else: ...
CheckCache ==
    /\ vs.pc = "init"
    /\ vs' = [vs EXCEPT !.pc = IF Exists(cacheFile) THEN "load" ELSE "build",
                         !.path = IF Exists(cacheFile) THEN "load" ELSE "build"]
    /\ UNCHANGED <<corpus, cacheFile, lastSearch>>
    /\ UNCHANGED <<serveVars, ex>>

\* self.embeddings = np.load(self.cache_file): the rows of the file as they
\* are; a file whose data is shorter than its header announces makes np.load
\* raise, and the constructor with it
LoadCache ==
    /\ vs.pc = "load"
    /\ vs' = IF Complete(cacheFile)
             THEN [vs EXCEPT !.pc = "add", !.embeddings = cacheFile.rows]
             ELSE [vs EXCEPT !.pc = "failed"]
    /\ UNCHANGED <<corpus, cacheFile, lastSearch>>
    /\ UNCHANGED <<serveVars, ex>>

\* the mutant of BatchOf: a slice that runs past the end of data is dropped
BatchOfWholeOnly(data, i, batch_size) ==
    IF i + batch_size <= Len(data)
    THEN [j \in 1..batch_size |-> data[i + j].customer_query]
    ELSE <<>>

\* data['customer_query'].iloc[i:i+batch_size].tolist()
BatchOf(data, i, batch_size) ==
    [j \in 1..(Min({i + batch_size, Len(data)}) - i) |-> data[i + j].customer_query]

\* one turn of: for i in range(0, len(data), batch_size)
EncodeNextBatch ==
    /\ vs.pc = "build"
    /\ vs.i < Len(vs.data)
    /\ vs' = [vs EXCEPT
                !.embeddings = @ \o EncodeBatch(BatchOf(vs.data, vs.i, vs.batch_size)),
                !.i = @ + vs.batch_size]
    /\ UNCHANGED <<corpus, cacheFile, lastSearch>>
    /\ UNCHANGED <<serveVars, ex>>

\* the loop is over; np.save opens the cache file itself for writing and
\* writes the header that announces the shape
SaveOpen ==
    /\ vs.pc = "build"
    /\ vs.i >= Len(vs.data)
    /\ cacheFile' = [shape |-> Len(vs.embeddings), rows |-> <<>>]
    /\ vs' = [vs EXCEPT !.pc = "save"]
    /\ UNCHANGED <<corpus, lastSearch>>
    /\ UNCHANGED <<serveVars, ex>>

\* np.save writes the array data into the open file, row after row
SaveWriteRow ==
    /\ vs.pc = "save"
    /\ Len(cacheFile.rows) < Len(vs.embeddings)
    /\ cacheFile' = [cacheFile EXCEPT
                        !.rows = Append(@, vs.embeddings[Len(cacheFile.rows) + 1])]
    /\ UNCHANGED <<corpus, vs, lastSearch>>
    /\ UNCHANGED <<serveVars, ex>>

\* np.save returns
SaveClose ==
    /\ vs.pc = "save"
    /\ Len(cacheFile.rows) = Len(vs.embeddings)
    /\ vs' = [vs EXCEPT !.pc = "add"]
    /\ UNCHANGED <<corpus, cacheFile, lastSearch>>
    /\ UNCHANGED <<serveVars, ex>>

\* self.data = data; self.index = faiss.IndexFlatL2(384); self.index.add(self.embeddings)
IndexAdd ==
    /\ vs.pc = "add"
    /\ vs' = [vs EXCEPT !.pc = "ready", !.index = vs.embeddings]
    /\ UNCHANGED <<corpus, cacheFile, lastSearch>>
    /\ UNCHANGED <<serveVars, ex>>

\* vector_store.search(query, top_k)
Search(query, top_k) ==
    /\ vs.pc = "ready"
    /\ lastSearch' = SearchStore(vs.data, vs.index, query, top_k)
    /\ UNCHANGED <<corpus, cacheFile, vs>>
    /\ UNCHANGED <<serveVars, ex>>

\* the process ends (the runtime is stopped, killed or crashes) wherever it is
Crash ==
    /\ vs.pc # "down"
    /\ vs' = NoStore
    /\ lastSearch' = NoSearch
    /\ UNCHANGED <<corpus, cacheFile>>
    /\ UNCHANGED <<serveVars, ex>>

\* between two process starts the dataset on disk is replaced
ChangeCorpus(c) ==
    /\ vs.pc = "down"
    /\ c # corpus
    /\ corpus' = c
    /\ UNCHANGED <<cacheFile, vs, lastSearch>>
    /\ UNCHANGED <<serveVars, ex>>

\* a thread that is not inside generate_response
IdleThread ==
    [pc |-> "idle", id |-> 0, query |-> <<>>, context_str |-> <<>>,
     answer |-> <<>>, timestamp |-> 0, log_df |-> <<>>]

ServeIdle ==
    /\ logFile = [header |-> TRUE, rows |-> <<>>]
    /\ th = [t \in {"main", "server"} |-> IdleThread]
    /\ calls = <<>>
    /\ clock = 0
    /\ log0 = <<>>
    /\ cell = "cell8"
    /\ token = ""
    /\ serverUp = FALSE

ExIdle == ex = [raw |-> <<>>, answer |-> <<>>, done |-> FALSE]

InitStore ==
    /\ corpus \in Corpora
    /\ cacheFile = NoFile
    /\ vs = NoStore
    /\ lastSearch = NoSearch
    /\ ServeIdle
    /\ ExIdle

NextStore ==
    \/ \E bs \in 1..MaxBatch : StartProcess(bs)
    \/ CheckCache
    \/ LoadCache
    \/ EncodeNextBatch
    \/ SaveOpen
    \/ SaveWriteRow
    \/ SaveClose
    \/ IndexAdd
    \/ \E q \in SearchTexts, k \in 1..MaxTopK : Search(q, k)
    \/ Crash
    \/ \E c \in Corpora : ChangeCorpus(c)

SpecStore == InitStore /\ [][NextStore]_vars

----------------------------------------------------------------------------
(* Claims about the VectorStore, checked under SpecStore.                  *)

\* row i of the matrix is the embedding of record i of the data, for every i
BoundTo(matrix, data) ==
    /\ Len(matrix) = Len(data)
    /\ \A i \in 1..Len(data) : matrix[i] = Embed(data[i].customer_query)

\* C2: whatever the earlier process starts and corpus changes were, the matrix
\* added to the index has one row per record of the current corpus and row i
\* is the embedding of corpus[i].customer_query (stale or mismatched cached
\* data is never used).
C2_PositionalBinding ==
    vs.pc = "ready" => BoundTo(vs.index, vs.data)

\* C6: a process that stopped while VectorStore.__init__ was building and
\* persisting leaves no partial cache file: when no constructor is running,
\* and when the next one tests os.path.exists and loads, the cache file is
\* absent or complete.
C6_NoPartialCacheFile ==
    vs.pc \in {"down", "init", "load"} => (~Exists(cacheFile) \/ Complete(cacheFile))

SearchDone == lastSearch.top_k >= 1

\* the distance of corpus record id (0-based) to the query
RecordDistance(id, query) ==
    L2(Embed(vs.data[id + 1].customer_query), Embed(query))

\* C7: a search returns at most top_k replies, each the support_reply of a
\* distinct record of the live corpus, and the distances of those records to
\* the query are non-decreasing in the order returned.
C7_SearchOrdered ==
    SearchDone =>
        LET ids == lastSearch.valid_indices
            res == lastSearch.result
        IN  /\ Len(res) <= lastSearch.top_k
            /\ Len(res) = Len(ids)
            /\ \A j \in 1..Len(ids) :
                  /\ ids[j] \in 0..(Len(vs.data) - 1)
                  /\ res[j] = vs.data[ids[j] + 1].support_reply
            /\ \A j, l \in 1..Len(ids) : j # l => ids[j] # ids[l]
            /\ \A j \in 1..(Len(ids) - 1) :
                  RecordDistance(ids[j], lastSearch.query)
                      <= RecordDistance(ids[j + 1], lastSearch.query)

\* C8: with top_k greater than the corpus size N a search returns exactly N
\* results, and no id outside [0, N) is used to index the corpus.
C8_SearchBounds ==
    SearchDone =>
        /\ lastSearch.top_k > Len(vs.data) => Len(lastSearch.result) = Len(vs.data)
        /\ \A j \in 1..Len(lastSearch.valid_indices) :
              lastSearch.valid_indices[j] \in 0..(Len(vs.data) - 1)

\* What C7 and C8 say does hold of every search on a store whose index is
\* bound to its data: the two fail only through the unvalidated cache of C2.
SearchOrderedWhenBound == BoundTo(vs.index, vs.data) => C7_SearchOrdered

SearchBoundsWhenBound == BoundTo(vs.index, vs.data) => C8_SearchBounds

----------------------------------------------------------------------------
(* chat_log.csv and the pandas round trip of log_interaction.              *)

\* the texts of this model that pd.read_csv takes for a missing value
\* (its default na_values hold "", "NA", "N/A", "NaN", "null", ...)
NaValues == {<<>>, T_NA}

NaN == [na |-> TRUE, s |-> <<>>]

Str(text) == [na |-> FALSE, s |-> text]

\* pd.read_csv parses one field of an object column
ReadField(text) == IF text \in NaValues THEN NaN ELSE Str(text)

\* to_csv formats one cell (na_rep is '')
WriteField(c) == IF c.na THEN <<>> ELSE c.s

\* pd.read_csv(LOG_PATH): one DataFrame row per line of the file, in order
ReadCsv(file) ==
    [i \in 1..Len(file.rows) |->
        [timestamp |-> file.rows[i].timestamp,
         query |-> ReadField(file.rows[i].query),
         context |-> ReadField(file.rows[i].context),
         response |-> ReadField(file.rows[i].response),
         id |-> file.rows[i].id]]

\* pd.DataFrame([new_entry]): the values are the Python strings themselves
NewEntry(timestamp, query, context, response, id) ==
    [timestamp |-> timestamp, query |-> Str(query), context |-> Str(context),
     response |-> Str(response), id |-> id]

\* log_df.to_csv(LOG_PATH, index=False): the header line and one line per row
ToCsv(df) ==
    [header |-> TRUE,
     rows |-> [i \in 1..Len(df) |->
        [timestamp |-> df[i].timestamp,
         query |-> WriteField(df[i].query),
         context |-> WriteField(df[i].context),
         response |-> WriteField(df[i].response),
         id |-> df[i].id]]]

\* the file right after open(LOG_PATH, "w"): truncated, nothing written yet
Truncated == [header |-> FALSE, rows |-> <<>>]

----------------------------------------------------------------------------
(* generate_response on the notebook's main thread and on the server       *)
(* thread.  The steps that touch nothing shared are taken together.        *)

Threads == {"main", "server"}

QueryTexts == {T_hi, T_NA}

OracleOutputs == {Marker \o <<" ", "o", "k">>, <<"o", "k">> \o Marker}

\* the vector_store every call searches: built over this corpus, no cache
ServingData ==
    << [customer_query |-> T_hi, support_reply |-> <<"o", "k">>],
       [customer_query |-> T_NA, support_reply |-> <<"s", "o">>] >>

ServingIndex == EncodeBatch([i \in 1..Len(ServingData) |-> ServingData[i].customer_query])

\* "\n".join(context)
RECURSIVE JoinLines(_)
JoinLines(texts) ==
    IF Len(texts) = 0 THEN <<>>
    ELSE IF Len(texts) = 1 THEN texts[1]
    ELSE texts[1] \o <<"\n">> \o JoinLines(Tail(texts))

\* context = vector_store.search(query); context_str = "\n".join(context)
ContextOf(query) == JoinLines(SearchStore(ServingData, ServingIndex, query, 3).result)

\* the call ends: it returned result, or raised (and handed nothing back)
Finish(id, outcome, error, result) ==
    [calls EXCEPT ![id].outcome = outcome, ![id].error = error, ![id].result = result]

\* generate_response(query) is entered
BeginCall(t, q) ==
    /\ th[t].pc = "idle"
    /\ Len(calls) < MaxCalls
    /\ calls' = Append(calls,
            [thread |-> t, query |-> q, oracle |-> "pending", logFailed |-> FALSE,
             outcome |-> "running", error |-> "none", answer |-> <<>>,
             result |-> <<>>])
    /\ th' = [th EXCEPT ![t] =
            [IdleThread EXCEPT !.pc = "generate", !.id = Len(calls) + 1,
                               !.query = q, !.context_str = ContextOf(q)]]

\* cell 6: generate_response(...) called directly on the main thread
DirectCall(q) ==
    /\ BeginCall("main", q)
    /\ UNCHANGED <<logFile, clock, log0, cell, token, serverUp>>
    /\ UNCHANGED <<storeVars, ex>>

\* rag_query: a POST to /rag-query is taken up by the server thread.  The
\* handler is a coroutine that calls generate_response without awaiting, so
\* the server's event loop runs one request at a time; a request overlaps
\* only with a direct call on the main thread
HandleRequest(q) ==
    /\ serverUp
    /\ BeginCall("server", q)
    /\ UNCHANGED <<logFile, clock, log0, cell, token, serverUp>>
    /\ UNCHANGED <<storeVars, ex>>

\* tokenizer(...), model.generate(...), tokenizer.decode(...) succeed and the
\* answer is taken from the decoded text
Generate(t, raw) ==
    /\ th[t].pc = "generate"
    /\ th' = [th EXCEPT ![t].pc = "stamp", ![t].answer = ExtractAnswer(raw)]
    /\ calls' = [calls EXCEPT ![th[t].id].oracle = "ok",
                              ![th[t].id].answer = ExtractAnswer(raw)]
    /\ UNCHANGED <<logFile, clock, log0, cell, token, serverUp>>
    /\ UNCHANGED <<storeVars, ex>>

\* the mutant of OracleRaised: the failure is caught and a row is logged
OracleRaisedLogged(t) ==
    /\ th' = [th EXCEPT ![t] = IdleThread]
    /\ calls' = [Finish(th[t].id, "raised", "OracleFailure", <<>>)
                    EXCEPT ![th[t].id].oracle = "raised"]
    /\ logFile' = [logFile EXCEPT !.rows = Append(@,
            [timestamp |-> clock, query |-> th[t].query,
             context |-> th[t].context_str, response |-> <<>>, id |-> th[t].id])]

\* an exception of the generation step leaves generate_response: nothing
\* catches it, and log_interaction is not reached
OracleRaised(t) ==
    /\ th' = [th EXCEPT ![t] = IdleThread]
    /\ calls' = [Finish(th[t].id, "raised", "OracleFailure", <<>>)
                    EXCEPT ![th[t].id].oracle = "raised"]
    /\ logFile' = logFile

\* tokenizer(...), model.generate(...) or tokenizer.decode(...) raises
GenerateFails(t) ==
    /\ th[t].pc = "generate"
    /\ OracleRaised(t)
    /\ UNCHANGED <<clock, log0, cell, token, serverUp>>
    /\ UNCHANGED <<storeVars, ex>>

\* log_interaction: timestamp = datetime.now().isoformat()
Stamp(t, now) ==
    /\ th[t].pc = "stamp"
    /\ now \in {clock, clock + 1}
    /\ now <= MaxClock
    /\ clock' = now
    /\ th' = [th EXCEPT ![t].pc = "read", ![t].timestamp = now]
    /\ UNCHANGED <<logFile, calls, log0, cell, token, serverUp>>
    /\ UNCHANGED <<storeVars, ex>>

\* an exception inside log_interaction leaves log_interaction and then
\* generate_response: the answer is not returned
LogRaised(t) ==
    /\ th' = [th EXCEPT ![t] = IdleThread]
    /\ calls' = [Finish(th[t].id, "raised", "LogWriteFailure", <<>>)
                    EXCEPT ![th[t].id].logFailed = TRUE]

\* log_df = pd.read_csv(LOG_PATH); log_df = pd.concat([log_df, new_entry]).
\* read_csv raises on a file without a header line (EmptyDataError) and when
\* the file cannot be read (readable = FALSE)
LogRead(t, readable) ==
    /\ th[t].pc = "read"
    /\ IF readable /\ logFile.header
       THEN /\ th' = [th EXCEPT ![t].pc = "open",
                      ![t].log_df = Append(ReadCsv(logFile),
                          NewEntry(th[t].timestamp, th[t].query, th[t].context_str,
                                   th[t].answer, th[t].id))]
            /\ calls' = calls
       ELSE LogRaised(t)
    /\ UNCHANGED <<logFile, clock, log0, cell, token, serverUp>>
    /\ UNCHANGED <<storeVars, ex>>

\* log_df.to_csv(LOG_PATH, index=False) opens the file for writing, which
\* empties it; the open raises when the file cannot be written
LogOpen(t, writable) ==
    /\ th[t].pc = "open"
    /\ IF writable
       THEN /\ logFile' = Truncated
            /\ th' = [th EXCEPT ![t].pc = "write"]
            /\ calls' = calls
       ELSE /\ logFile' = logFile
            /\ LogRaised(t)
    /\ UNCHANGED <<clock, log0, cell, token, serverUp>>
    /\ UNCHANGED <<storeVars, ex>>

\* to_csv writes the whole frame and closes the file; log_interaction
\* returns and generate_response returns the answer
LogWrite(t) ==
    /\ th[t].pc = "write"
    /\ logFile' = ToCsv(th[t].log_df)
    /\ calls' = Finish(th[t].id, "returned", "none", th[t].answer)
    /\ th' = [th EXCEPT ![t] = IdleThread]
    /\ UNCHANGED <<clock, log0, cell, token, serverUp>>
    /\ UNCHANGED <<storeVars, ex>>

----------------------------------------------------------------------------
(* The cells that start the server and check the credential; a cell runs   *)
(* on the main thread, so only while no direct call is running.            *)

\* cell 8: Thread(target=run).start(), uvicorn serves on port 8000
RunCell8 ==
    /\ cell = "cell8"
    /\ th["main"].pc = "idle"
    /\ serverUp' = TRUE
    /\ cell' = "cell9"
    /\ UNCHANGED <<logFile, th, calls, clock, log0, token>>
    /\ UNCHANGED <<storeVars, ex>>

\* cell 9: os.environ["NGROK_AUTHTOKEN"] = <the text the user pasted>
RunCell9 ==
    /\ cell = "cell9"
    /\ th["main"].pc = "idle"
    /\ token' = "pasted"
    /\ cell' = "cell10"
    /\ UNCHANGED <<logFile, th, calls, clock, log0, serverUp>>
    /\ UNCHANGED <<storeVars, ex>>

\* a user without a credential leaves cell 9 out
SkipCell9 ==
    /\ cell = "cell9"
    /\ th["main"].pc = "idle"
    /\ cell' = "cell10"
    /\ UNCHANGED <<logFile, th, calls, clock, log0, token, serverUp>>
    /\ UNCHANGED <<storeVars, ex>>

\* cell 10: authtoken = os.getenv("NGROK_AUTHTOKEN"); if authtoken: ... else: raise ValueError
RunCell10 ==
    /\ cell = "cell10"
    /\ th["main"].pc = "idle"
    /\ cell' = IF token # "" THEN "cell11" ELSE "ValueError"
    /\ UNCHANGED <<logFile, th, calls, clock, log0, token, serverUp>>
    /\ UNCHANGED <<storeVars, ex>>

----------------------------------------------------------------------------

StoreIdle ==
    /\ corpus = ServingData
    /\ cacheFile = NoFile
    /\ vs = NoStore
    /\ lastSearch = NoSearch

\* chat_log.csv after the "CSV log setup" of cell 5: the header alone, or
\* the header and a row that an earlier session appended
InitialLogs ==
    { [header |-> TRUE, rows |-> <<>>],
      [header |-> TRUE, rows |->
          << [timestamp |-> 0, query |-> T_hi, context |-> <<"o", "k">>,
              response |-> <<"o", "k">>, id |-> 0] >>] }

InitServe ==
    /\ logFile \in InitialLogs
    /\ log0 = logFile.rows
    /\ th = [t \in Threads |-> IdleThread]
    /\ calls = <<>>
    /\ clock = 0
    /\ cell = "cell8"
    /\ token = ""
    /\ serverUp = FALSE
    /\ StoreIdle
    /\ ExIdle

\* the steps of generate_response on thread t
CallStep(t) ==
    \/ \E raw \in OracleOutputs : Generate(t, raw)
    \/ GenerateFails(t)
    \/ \E now \in 0..MaxClock : Stamp(t, now)
    \/ \E readable \in BOOLEAN : LogRead(t, readable)
    \/ \E writable \in BOOLEAN : LogOpen(t, writable)
    \/ LogWrite(t)

\* the session after cell 8: the server thread takes requests while the
\* main thread may call generate_response directly
InitUp ==
    /\ logFile \in InitialLogs
    /\ log0 = logFile.rows
    /\ th = [t \in Threads |-> IdleThread]
    /\ calls = <<>>
    /\ clock = 0
    /\ cell = "cell9"
    /\ token = ""
    /\ serverUp = TRUE
    /\ StoreIdle
    /\ ExIdle

NextServe ==
    \/ \E q \in QueryTexts : DirectCall(q)
    \/ \E q \in QueryTexts : HandleRequest(q)
    \/ \E t \in Threads : CallStep(t)

SpecServe == InitUp /\ [][NextServe]_vars

\* the cells from cell 8 on, run in the notebook's order, and the requests
\* the server thread takes up meanwhile
NextCells ==
    \/ RunCell8
    \/ RunCell9
    \/ SkipCell9
    \/ RunCell10
    \/ \E q \in QueryTexts : HandleRequest(q)
    \/ CallStep("server")

SpecCells == InitServe /\ [][NextCells]_vars

\* a session in which only the main thread calls generate_response
NextSeq ==
    \/ \E q \in QueryTexts : DirectCall(q)
    \/ CallStep("main")

SpecSeq == InitServe /\ [][NextSeq]_vars

----------------------------------------------------------------------------
(* The answer extraction alone, over every raw output of the bound.        *)

InitExtract ==
    /\ ex \in [raw : RawOutputs, answer : {<<>>}, done : {FALSE}]
    /\ StoreIdle
    /\ ServeIdle

\* response = tokenizer.decode(...); answer = response.split("Answer:")[-1].strip()
Extract ==
    /\ ~ex.done
    /\ ex' = [ex EXCEPT !.answer = ExtractAnswer(ex.raw), !.done = TRUE]
    /\ UNCHANGED <<storeVars, serveVars>>

NextExtract == Extract

SpecExtract == InitExtract /\ [][NextExtract]_vars

----------------------------------------------------------------------------
(* Claims about generate_response, the log and the cells.                  *)

AllIdle == \A t \in Threads : th[t].pc = "idle"

RowsOf(id) == {j \in 1..Len(logFile.rows) : logFile.rows[j].id = id}

\* C1: when calls of generate_response overlap, no interaction is lost: once
\* every call has returned from log_interaction, chat_log.csv holds one row
\* for each call that returned.
C1_NoInteractionLost ==
    AllIdle =>
        \A id \in 1..Len(calls) :
            calls[id].outcome = "returned" => Cardinality(RowsOf(id)) = 1

\* C3: a call whose generation step raised ends by raising that failure to
\* its caller, and no row of it, complete or partial, reaches chat_log.csv
\* or a frame about to be written to it.
C3_FailedGenerationNotLogged ==
    \A id \in 1..Len(calls) :
        calls[id].oracle = "raised" =>
            /\ calls[id].outcome = "raised"
            /\ calls[id].error = "OracleFailure"
            /\ RowsOf(id) = {}
            /\ \A t \in Threads : \A j \in 1..Len(th[t].log_df) :
                  th[t].log_df[j].id # id

\* a generation failed in a session whose log has grown by another call
C3_Witness ==
    /\ \E id \in 1..Len(calls) : calls[id].oracle = "raised"
    /\ Len(logFile.rows) > Len(log0)

\* C4: a call whose generation succeeded and whose log_interaction failed
\* still returns the computed answer, the log failure being reported apart
\* from a generation failure.
C4_AnswerSurvivesLogFailure ==
    \A id \in 1..Len(calls) :
        calls[id].logFailed =>
            /\ calls[id].outcome = "returned"
            /\ calls[id].result = calls[id].answer
            /\ calls[id].error = "LogWriteFailure"

\* C5: after n sequential successful calls the log holds the header, the rows
\* it began with, unchanged and in order, then n rows in call order, the
\* i-th carrying the query of the i-th call, timestamps non-decreasing.
C5_LogGrowth ==
    (AllIdle /\ \A id \in 1..Len(calls) : calls[id].outcome = "returned") =>
        LET rows == logFile.rows
            m == Len(log0)
        IN  /\ logFile.header
            /\ Len(rows) = m + Len(calls)
            /\ SubSeq(rows, 1, m) = log0
            /\ \A i \in 1..Len(calls) :
                  /\ rows[m + i].id = i
                  /\ rows[m + i].query = calls[i].query
            /\ \A j \in 1..(Len(rows) - 1) :
                  rows[j].timestamp <= rows[j + 1].timestamp

\* C9: in a run where the credential was never supplied, so that cell 10
\* raised ValueError, no request to /rag-query was accepted.
C9_FailFastBeforeQueries ==
    cell = "ValueError" =>
        \A id \in 1..Len(calls) : calls[id].thread # "server"

\* the positions where "Answer:" occurs in s
MarkerPositions(s) == {i \in 1..Len(s) : OccursAt(s, Marker, i)}

\* the text after the last occurrence of the marker, all of s when there is none
AfterLastMarker(s) ==
    IF MarkerPositions(s) = {} THEN s
    ELSE SubSeq(s, Max(MarkerPositions(s)) + Len(Marker), Len(s))

\* C10 as stated: the answer is the text that follows the last "Answer:",
\* and the full raw output when the marker does not occur.
C10_AnswerIsTrailingText ==
    ex.done => ex.answer = AfterLastMarker(ex.raw)

\* C10, amended: the answer is the text that follows the last "Answer:", or
\* the full raw output when the marker does not occur, with leading and
\* trailing whitespace removed.
C10_AnswerIsStrippedTrailingText ==
    ex.done => ex.answer = Strip(AfterLastMarker(ex.raw))

\* an output with two markers whose trailing text is stripped to an answer
C10_Witness ==
    /\ ex.done
    /\ Cardinality(MarkerPositions(ex.raw)) >= 2
    /\ ex.answer # <<>>
    /\ ex.answer # AfterLastMarker(ex.raw)

----------------------------------------------------------------------------
(* The batch loop of the build path, checked under SpecStore.              *)

\* C11: on the build path (no cache file), whatever batch_size is, the loop
\* embeds the records in corpus order, each once: while it runs the matrix
\* holds the embeddings of the records before position i, and the matrix
\* that is persisted and added to the index has one row per record, row i
\* being the embedding of corpus[i].customer_query.
C11_BatchLoopBinding ==
    vs.path = "build" =>
        /\ vs.pc = "build" =>
              BoundTo(vs.embeddings,
                      SubSeq(vs.data, 1, Min({vs.i, Len(vs.data)})))
        /\ vs.pc \in {"save", "add", "ready"} => BoundTo(vs.embeddings, vs.data)
        /\ vs.pc \in {"add", "ready"} =>
              /\ Complete(cacheFile)
              /\ BoundTo(cacheFile.rows, vs.data)
        /\ vs.pc = "ready" => BoundTo(vs.index, vs.data)

\* a store built over three records in batches of two: the last batch is
\* short
C11_Witness ==
    /\ vs.path = "build"
    /\ vs.pc = "ready"
    /\ Len(vs.data) = 3
    /\ vs.batch_size = 2
    /\ vs.data[1].customer_query # vs.data[3].customer_query

====
